---- MODULE Spec2Model ----
(***************************************************************************)
(* AutomationAgent of brevo_automation.py: execute_workflow (contact       *)
(* import, date computation, pre-flight template check, scheduling of the  *)
(* three campaigns) and schedule_campaign, run against a remote campaign   *)
(* service whose answers are nondeterministic.                             *)
(*                                                                         *)
(* A datetime is a record [day, hour, minute, second]; day counts days     *)
(* from Monday 2024-01-01 (day 0), so day % 7 is Python's weekday();       *)
(* second stands for the whole sub-minute part (second and microsecond).   *)
(***************************************************************************)
EXTENDS Integers, Sequences, FiniteSets

VARIABLES
    pc,                 \* position of the running call
    entry,              \* which public operation was called
    now,                \* the wall clock, as last read
    callAt,             \* the clock when the public operation was called
    tmpl,               \* remote service: state of every template
    selected_templates, \* execute_workflow argument
    sender_info,        \* execute_workflow argument: the keys the dict has
    event_end_date,     \* execute_workflow argument
    created_list,       \* import_contacts local: id of the list it created
    import_result,      \* dict returned by import_contacts
    list_id,            \* list id held by the running call
    today,              \* execute_workflow local
    campaign_schedules, \* execute_workflow local: <<>> until computed
    idx,                \* index of the campaign a loop is at
    sc,                 \* arguments of the running schedule_campaign call
    sc_result,          \* dict returned by the last schedule_campaign call
    results,            \* the results dict of execute_workflow
    calls,              \* history: every remote request issued, in order
    temp_workflow_csv,  \* dashboard: contents of the file "temp_workflow.csv"
    sessions            \* dashboard: the user sessions running the workflow page

vars == <<pc, entry, now, callAt, tmpl, selected_templates, sender_info,
          event_end_date, created_list, import_result, list_id, today, campaign_schedules,
          idx, sc, sc_result, results, calls, temp_workflow_csv, sessions>>

\* the state of the dashboard process around the agent
dashboard == <<temp_workflow_csv, sessions>>

----
\* Bounds of the model
MaxTemplate == 2        \* template ids 1..MaxTemplate
MaxDateDay == 6         \* date computation is explored for day 0..MaxDateDay
MaxAdvance == 1         \* half hours the clock may advance during one call

\* Program constants
TUESDAY == 1
FRIDAY == 4
INVITE_HOUR == 9
POST_EVENT_DAYS == 2
POST_EVENT_HOUR == 10

Templates == 1..MaxTemplate
TemplateStates == {"missing", "inactive", "active"}
\* the id the remote service gives a new list, and the ids a caller may name
ListIds == {42}
CallerListIds == {42, 43}
Campaigns == 1..3
CampaignNames == <<"Tuesday Invitation", "Friday Reminder", "Post-Event Survey">>
TemplateKeys == <<"tuesday", "friday", "post_event">>

----
\* datetime arithmetic

Stamp(dt) == ((dt.day * 24 + dt.hour) * 60 + dt.minute) * 60 + dt.second

FromStamp(s) ==
    [day |-> s \div 86400, hour |-> (s \div 3600) % 24,
     minute |-> (s \div 60) % 60, second |-> s % 60]

DateTime(d, h, m, s) == [day |-> d, hour |-> h, minute |-> m, second |-> s]

Weekday(dt) == dt.day % 7

AddDays(dt, n) == [dt EXCEPT !.day = @ + n]

\* datetime.replace(hour=h, minute=0): second and microsecond are kept
ReplaceHour(dt, h) == [dt EXCEPT !.hour = h, !.minute = 0]

\* faulty variant: the next such weekday strictly after today
DaysUntilNext(target, wd) == ((target - wd + 6) % 7) + 1
DaysUntil(target, wd) == (target - wd + 7) % 7

\* faulty variant: the time of day is not reset
SlotSameTime(t, target) == AddDays(t, DaysUntil(target, Weekday(t)))
WeekdaySlot(t, target) ==
    ReplaceHour(AddDays(t, DaysUntil(target, Weekday(t))), INVITE_HOUR)

\* faulty variant: one day after the event
PostEventSlotNextDay(e) == ReplaceHour(AddDays(e, 1), POST_EVENT_HOUR)
PostEventSlot(e) == ReplaceHour(AddDays(e, POST_EVENT_DAYS), POST_EVENT_HOUR)

\* faulty variant: a send date equal to the clock passes
NotInFutureStrict(send_date, t) == Stamp(send_date) < Stamp(t)
NotInFuture(send_date, t) == Stamp(send_date) <= Stamp(t)

\* time that may have passed, in seconds, when the clock is read again
Elapsed ==
    {0} \cup IF Stamp(now) - Stamp(callAt) < MaxAdvance * 1800 THEN {1800} ELSE {}

----
\* messages and dicts

Msg(text, campaign, template) ==
    [text |-> text, campaign |-> campaign, template |-> template]
NoMsg == Msg("", "", 0)

\* an entry of results["steps"]
Step(text, campaign) == [text |-> text, campaign |-> campaign]

NoDate == DateTime(0, 0, 0, 0)
NoCall == [campaign_name |-> "", template_id |-> 0, list_id |-> 0, send_date |-> NoDate]
NoResult == [status |-> "", message |-> NoMsg]

HandleError(message) == [status |-> "error", message |-> message]

Request(op, stage, template, list, sched, at, ok) ==
    [op |-> op, stage |-> stage, template |-> template, list |-> list,
     tstate |-> IF template \in Templates THEN tmpl[template] ELSE "",
     sched |-> sched, at |-> at, ok |-> ok]

----
\* the remote campaign service

\* GET smtp/templates/{id}: 200 only for a template that exists, whatever its
\* activation state; any other status, and a transport failure, give False
ValidateOutcomes(t) == IF tmpl[t] = "missing" THEN {FALSE} ELSE {TRUE, FALSE}

\* PUT smtp/templates/{id} {"status": "active"}: 2xx only for a template that exists
ActivateOutcomes(t) == IF tmpl[t] = "missing" THEN {FALSE} ELSE {TRUE, FALSE}

\* POST emailCampaigns: 201 with an id, 201 without one, another status, no answer
PostOutcomes == {"created", "noid", "rejected", "transport"}

----
\* inputs

\* a Tuesday, half an hour before and half an hour after the Tuesday slot
StartTimes == {DateTime(TUESDAY, h, 30, 0) : h \in {8, 9}}

\* the template chosen for each campaign; ids are interchangeable, so a
\* campaign takes a template chosen before it or the next unused id
Selections ==
    {sel \in [Campaigns -> Templates] :
        /\ sel[1] = 1
        /\ sel[2] <= 2
        /\ sel[3] <= IF sel[2] = 2 THEN 3 ELSE 2}

SenderInfos == {{"name", "email"}, {"name"}, {}}

\* the dashboard passes midnight of the chosen date
EventEndDates(t) == {DateTime(t.day + 1, 0, 0, 0)}

SendDates(t) ==
    {FromStamp(Stamp(t) - 1800), t, FromStamp(Stamp(t) + 1800),
     FromStamp(Stamp(t) + 86400)}

----
\* import_contacts

\* faulty variant: the result carries the folder id in place of the list id
ImportSuccessFolderId(id) ==
    [status |-> "success",
     message |-> Msg("Created list and imported contacts", "", 0),
     keys |-> {"status", "message", "list_id"}, list_id |-> 1]

ImportSuccess(id) ==
    [status |-> "success",
     message |-> Msg("Created list and imported contacts", "", 0),
     keys |-> {"status", "message", "list_id"}, list_id |-> id]

ImportError ==
    [status |-> "error", message |-> Msg("Contact import failed", "", 0),
     keys |-> {"status", "message", "error_details"}, list_id |-> 0]

NoImport == [status |-> "", message |-> NoMsg, keys |-> {}, list_id |-> 0]

\* faulty variant: a missing list_id is read as a default, not raised
GetListIdOrDefault(r) == TRUE
HasListId(r) == "list_id" \in r.keys

\* faulty variant: the handler returns a fresh results dict
CatchFreshResults(r, e) ==
    /\ results' = [steps |-> <<>>, actions_taken |-> <<>>,
                   result |-> [text |-> "Workflow failed", cause |-> e]]
    /\ pc' = "returned"

\* faulty variant: the exception leaves execute_workflow
CatchReraise(r, e) ==
    /\ results' = r
    /\ pc' = "raised"
\* an exception reaching the except clause of execute_workflow
Catch(r, e) ==
    /\ results' = [r EXCEPT !.result = [text |-> "Workflow failed", cause |-> e]]
    /\ pc' = "returned"

KeyError(key) == Msg(key, "", 0)

Init ==
    /\ pc = "idle"
    /\ entry = "none"
    /\ now \in StartTimes
    /\ callAt = now
    /\ tmpl \in [Templates -> TemplateStates]
    /\ selected_templates = [k \in {} |-> 0]
    /\ sender_info = {}
    /\ event_end_date = NoDate
    /\ created_list = 0
    /\ import_result = NoImport
    /\ list_id = 0
    /\ today = NoDate
    /\ campaign_schedules = <<>>
    /\ idx = 0
    /\ sc = NoCall
    /\ sc_result = NoResult
    /\ results = [steps |-> <<>>, actions_taken |-> <<>>,
                  result |-> [text |-> "", cause |-> NoMsg]]
    /\ calls = <<>>
    /\ temp_workflow_csv = ""
    /\ sessions = <<>>

CallExecuteWorkflow ==
    /\ pc = "idle"
    /\ \E sel \in Selections, s \in SenderInfos,
          e \in EventEndDates(now) :
        /\ selected_templates' =
               [k \in {"tuesday", "friday", "post_event"} |->
                   sel[CHOOSE i \in Campaigns : TemplateKeys[i] = k]]
        /\ sender_info' = s
        /\ event_end_date' = e
    /\ entry' = "workflow"
    /\ pc' = "create_list"
    /\ UNCHANGED <<now, callAt, tmpl, created_list, import_result, list_id,
                   today, campaign_schedules, idx, sc, sc_result, results, calls>>
    /\ UNCHANGED dashboard

CreateList ==
    /\ pc = "create_list"
    /\ \/ \E id \in ListIds :
            /\ created_list' = id
            /\ calls' = Append(calls, Request("create_list", "import", 0, id, 0, Stamp(now), TRUE))
            /\ pc' = "read_file"
            /\ UNCHANGED import_result
       \/ /\ calls' = Append(calls, Request("create_list", "import", 0, 0, 0, Stamp(now), FALSE))
          /\ import_result' = ImportError
          /\ pc' = "record_import"
          /\ UNCHANGED created_list
    /\ UNCHANGED <<entry, now, callAt, tmpl, selected_templates, sender_info,
                   event_end_date, list_id, today, campaign_schedules, idx, sc,
                   sc_result, results>>
    /\ UNCHANGED dashboard

ReadFile ==
    /\ pc = "read_file"
    /\ \/ /\ pc' = "import_call"
          /\ UNCHANGED import_result
       \/ /\ import_result' = ImportError
          /\ pc' = "record_import"
    /\ UNCHANGED <<entry, now, callAt, tmpl, selected_templates, sender_info,
                   event_end_date, created_list, list_id, today,
                   campaign_schedules, idx, sc, sc_result, results, calls>>
    /\ UNCHANGED dashboard

ImportCall ==
    /\ pc = "import_call"
    /\ \E ok \in BOOLEAN :
        /\ calls' = Append(calls, Request("import_contacts", "import", 0, created_list, 0, Stamp(now), ok))
        /\ import_result' = IF ok THEN ImportSuccess(created_list) ELSE ImportError
    /\ pc' = "record_import"
    /\ UNCHANGED <<entry, now, callAt, tmpl, selected_templates, sender_info,
                   event_end_date, created_list, list_id, today,
                   campaign_schedules, idx, sc, sc_result, results>>
    /\ UNCHANGED dashboard

RecordImport ==
    /\ pc = "record_import"
    /\ LET r == [results EXCEPT
                    !.steps = Append(@, Step("Import contacts", "")),
                    !.actions_taken = Append(@, import_result.message)]
       IN IF HasListId(import_result)
          THEN /\ results' = r
               /\ list_id' = import_result.list_id
               /\ pc' = "compute_dates"
          ELSE /\ Catch(r, KeyError("list_id"))
               /\ UNCHANGED list_id
    /\ UNCHANGED <<entry, now, callAt, tmpl, selected_templates, sender_info,
                   event_end_date, created_list, import_result, today,
                   campaign_schedules, idx, sc, sc_result, calls>>
    /\ UNCHANGED dashboard

ComputeDates ==
    /\ pc = "compute_dates"
    /\ LET t == now IN
        /\ today' = t
        /\ campaign_schedules' =
            << [name |-> CampaignNames[1],
                template |-> selected_templates["tuesday"],
                send_date |-> WeekdaySlot(t, TUESDAY)],
               [name |-> CampaignNames[2],
                template |-> selected_templates["friday"],
                send_date |-> WeekdaySlot(t, FRIDAY)],
               [name |-> CampaignNames[3],
                template |-> selected_templates["post_event"],
                send_date |-> PostEventSlot(event_end_date)] >>
    /\ idx' = 1
    /\ pc' = "preflight_validate"
    /\ UNCHANGED <<entry, now, callAt, tmpl, selected_templates, sender_info,
                   event_end_date, created_list, import_result, list_id, sc,
                   sc_result, results, calls>>
    /\ UNCHANGED dashboard

----
\* pre-flight template check

\* faulty variant: a failed check is not followed by an activation
NeverActivate(exists) == FALSE
NeedsActivation(exists) == ~exists

\* faulty variant: scheduling starts after the first campaign's check
AfterPreflightFirst(i) ==
    /\ idx' = 1
    /\ pc' = "schedule_begin"

\* the position after campaign i of the pre-flight loop
AfterPreflight(i) ==
    IF i < 3
    THEN /\ idx' = i + 1
         /\ pc' = "preflight_validate"
    ELSE /\ idx' = 1
         /\ pc' = "schedule_begin"

PreflightValidate ==
    /\ pc = "preflight_validate"
    /\ LET t == campaign_schedules[idx].template IN
       \E exists \in ValidateOutcomes(t) :
        /\ calls' = Append(calls, Request("get_template", "preflight", t, 0, 0, Stamp(now), exists))
        /\ IF NeedsActivation(exists)
           THEN /\ pc' = "preflight_activate"
                /\ UNCHANGED idx
           ELSE AfterPreflight(idx)
    /\ UNCHANGED <<entry, now, callAt, tmpl, selected_templates, sender_info,
                   event_end_date, created_list, import_result, list_id, today,
                   campaign_schedules, sc, sc_result, results>>
    /\ UNCHANGED dashboard

PreflightActivate ==
    /\ pc = "preflight_activate"
    /\ LET t == campaign_schedules[idx].template IN
       \E ok \in ActivateOutcomes(t) :
        /\ calls' = Append(calls, Request("activate_template", "preflight", t, 0, 0, Stamp(now), ok))
        /\ IF ok
           THEN /\ tmpl' = [tmpl EXCEPT ![t] = "active"]
                /\ AfterPreflight(idx)
                /\ UNCHANGED results
           ELSE /\ Catch(results,
                         Msg("Failed to activate template for",
                             campaign_schedules[idx].name, t))
                /\ UNCHANGED <<tmpl, idx>>
    /\ UNCHANGED <<entry, now, callAt, selected_templates, sender_info,
                   event_end_date, created_list, import_result, list_id, today,
                   campaign_schedules, sc, sc_result>>
    /\ UNCHANGED dashboard

----
\* scheduling

\* faulty variant: the scheduling loop walks the campaigns from the last
ScheduleBeginFromLast ==
    /\ pc = "schedule_begin"
    /\ LET c == campaign_schedules[4 - idx]
           r == [results EXCEPT !.steps = Append(@, Step("Schedule", c.name))]
       IN IF "name" \notin sender_info
          THEN /\ Catch(r, KeyError("name"))
               /\ UNCHANGED sc
          ELSE IF "email" \notin sender_info
          THEN /\ Catch(r, KeyError("email"))
               /\ UNCHANGED sc
          ELSE /\ results' = r
               /\ sc' = [campaign_name |-> c.name, template_id |-> c.template,
                         list_id |-> list_id, send_date |-> c.send_date]
               /\ pc' = "sc_validate"
    /\ UNCHANGED <<entry, now, callAt, tmpl, selected_templates, sender_info,
                   event_end_date, created_list, import_result, list_id, today,
                   campaign_schedules, idx, sc_result, calls>>
    /\ UNCHANGED dashboard

ScheduleBegin ==
    /\ pc = "schedule_begin"
    /\ LET c == campaign_schedules[idx]
           r == [results EXCEPT !.steps = Append(@, Step("Schedule", c.name))]
       IN IF "name" \notin sender_info
          THEN /\ Catch(r, KeyError("name"))
               /\ UNCHANGED sc
          ELSE IF "email" \notin sender_info
          THEN /\ Catch(r, KeyError("email"))
               /\ UNCHANGED sc
          ELSE /\ results' = r
               /\ sc' = [campaign_name |-> c.name, template_id |-> c.template,
                         list_id |-> list_id, send_date |-> c.send_date]
               /\ pc' = "sc_validate"
    /\ UNCHANGED <<entry, now, callAt, tmpl, selected_templates, sender_info,
                   event_end_date, created_list, import_result, list_id, today,
                   campaign_schedules, idx, sc_result, calls>>
    /\ UNCHANGED dashboard

CallScheduleCampaign ==
    /\ pc = "idle"
    /\ \E t \in Templates, l \in CallerListIds, d \in SendDates(now) :
        sc' = [campaign_name |-> "My Campaign", template_id |-> t,
               list_id |-> l, send_date |-> d]
    /\ entry' = "schedule"
    /\ pc' = "sc_validate"
    /\ UNCHANGED <<now, callAt, tmpl, selected_templates, sender_info,
                   event_end_date, created_list, import_result, list_id, today,
                   campaign_schedules, idx, sc_result, results, calls>>
    /\ UNCHANGED dashboard

\* faulty variant: a failed campaign aborts the workflow
ReturnRaiseOnError(r) ==
    /\ sc_result' = r
    /\ IF entry = "schedule"
       THEN /\ pc' = "returned"
            /\ UNCHANGED <<results, idx>>
       ELSE IF r.status # "success"
       THEN /\ Catch(results, r.message)
            /\ UNCHANGED idx
       ELSE /\ results' = [results EXCEPT !.actions_taken = Append(@, r.message)]
            /\ IF idx < 3
               THEN /\ idx' = idx + 1
                    /\ pc' = "schedule_begin"
               ELSE /\ pc' = "finish"
                    /\ UNCHANGED idx

\* schedule_campaign returns r: to its caller, or into the loop of execute_workflow
Return(r) ==
    /\ sc_result' = r
    /\ IF entry = "schedule"
       THEN /\ pc' = "returned"
            /\ UNCHANGED <<results, idx>>
       ELSE /\ results' = [results EXCEPT !.actions_taken = Append(@, r.message)]
            /\ IF idx < 3
               THEN /\ idx' = idx + 1
                    /\ pc' = "schedule_begin"
               ELSE /\ pc' = "finish"
                    /\ UNCHANGED idx

ScValidate ==
    /\ pc = "sc_validate"
    /\ \E exists \in ValidateOutcomes(sc.template_id) :
        /\ calls' = Append(calls, Request("get_template", "schedule", sc.template_id, 0, 0, Stamp(now), exists))
        /\ IF exists
           THEN /\ pc' = "sc_date_check"
                /\ UNCHANGED <<sc_result, results, idx>>
           ELSE Return(HandleError(Msg("Template ID does not exist.", "", sc.template_id)))
    /\ UNCHANGED <<entry, now, callAt, tmpl, selected_templates, sender_info,
                   event_end_date, created_list, import_result, list_id, today,
                   campaign_schedules, sc>>
    /\ UNCHANGED dashboard

ScDateCheck ==
    /\ pc = "sc_date_check"
    /\ \E d \in Elapsed :
        LET t == FromStamp(Stamp(now) + d) IN
        /\ now' = t
        /\ IF NotInFuture(sc.send_date, t)
           THEN Return(HandleError(Msg("Scheduled date must be in the future.", "", 0)))
           ELSE /\ pc' = "sc_post"
                /\ UNCHANGED <<sc_result, results, idx>>
    /\ UNCHANGED <<entry, callAt, tmpl, selected_templates, sender_info,
                   event_end_date, created_list, import_result, list_id, today,
                   campaign_schedules, sc, calls>>
    /\ UNCHANGED dashboard

ScheduleSuccess(name) ==
    [status |-> "success", message |-> Msg("Campaign scheduled successfully", name, 0)]

ScheduleFailure(name) ==
    HandleError(Msg("Failed to schedule campaign", name, 0))

ScPost ==
    /\ pc = "sc_post"
    /\ \E d \in Elapsed, outcome \in PostOutcomes :
        LET t == FromStamp(Stamp(now) + d) IN
        /\ now' = t
        /\ calls' = Append(calls,
               Request("create_campaign", "schedule", sc.template_id, sc.list_id,
                       Stamp(sc.send_date), Stamp(t), outcome = "created"))
        /\ IF outcome = "created"
           THEN Return(ScheduleSuccess(sc.campaign_name))
           ELSE Return(ScheduleFailure(sc.campaign_name))
    /\ UNCHANGED <<entry, callAt, tmpl, selected_templates, sender_info,
                   event_end_date, created_list, import_result, list_id, today,
                   campaign_schedules, sc>>
    /\ UNCHANGED dashboard

\* faulty variant: a failed scheduling attempt turns the terminal status
FinishFailedOnAnyError ==
    /\ pc = "finish"
    /\ results' = [results EXCEPT
                      !.result =
                          IF \E i \in DOMAIN calls :
                                 calls[i].stage = "schedule" /\ ~calls[i].ok
                          THEN [text |-> "Workflow failed", cause |-> sc_result.message]
                          ELSE [text |-> "Complete workflow executed successfully",
                                cause |-> NoMsg]]
    /\ pc' = "returned"
    /\ UNCHANGED <<entry, now, callAt, tmpl, selected_templates, sender_info,
                   event_end_date, created_list, import_result, list_id, today,
                   campaign_schedules, idx, sc, sc_result, calls>>
    /\ UNCHANGED dashboard

Finish ==
    /\ pc = "finish"
    /\ results' = [results EXCEPT
                      !.result = [text |-> "Complete workflow executed successfully",
                                  cause |-> NoMsg]]
    /\ pc' = "returned"
    /\ UNCHANGED <<entry, now, callAt, tmpl, selected_templates, sender_info,
                   event_end_date, created_list, import_result, list_id, today,
                   campaign_schedules, idx, sc, sc_result, calls>>
    /\ UNCHANGED dashboard

Next ==
    \/ CallExecuteWorkflow
    \/ CreateList
    \/ ReadFile
    \/ ImportCall
    \/ RecordImport
    \/ ComputeDates
    \/ PreflightValidate
    \/ PreflightActivate
    \/ ScheduleBegin
    \/ CallScheduleCampaign
    \/ ScValidate
    \/ ScDateCheck
    \/ ScPost
    \/ Finish

Spec == Init /\ [][Next]_vars

LiveSpec == Init /\ [][Next]_vars /\ WF_vars(Next)

----
\* Date computation on its own: execute_workflow after a successful import,
\* for every weekday and time of day

DateTimes ==
    {DateTime(d, h, m, s) : d \in 0..MaxDateDay, h \in 0..23, m \in {0, 30}, s \in {0, 30}}

\* day 161 is Monday 2024-06-10
EventEnds ==
    {DateTime(d, h, 0, s) : d \in (0..MaxDateDay) \cup {161}, h \in {0, 18}, s \in {0, 30}}

DateInit ==
    /\ pc = "compute_dates"
    /\ entry = "workflow"
    /\ now \in DateTimes
    /\ callAt = now
    /\ tmpl = [t \in Templates |-> "active"]
    /\ selected_templates = [k \in {"tuesday", "friday", "post_event"} |-> 1]
    /\ sender_info = {"name", "email"}
    /\ event_end_date \in EventEnds
    /\ created_list = 42
    /\ import_result = ImportSuccess(42)
    /\ list_id = 42
    /\ today = NoDate
    /\ campaign_schedules = <<>>
    /\ idx = 0
    /\ sc = NoCall
    /\ sc_result = NoResult
    /\ results = [steps |-> <<Step("Import contacts", "")>>,
                  actions_taken |-> <<ImportSuccess(42).message>>,
                  result |-> [text |-> "", cause |-> NoMsg]]
    /\ calls = << Request("create_list", "import", 0, 42, 0, Stamp(now), TRUE),
                  Request("import_contacts", "import", 0, 42, 0, Stamp(now), TRUE) >>
    /\ temp_workflow_csv = ""
    /\ sessions = <<>>

DateNext == ComputeDates

DateSpec == DateInit /\ [][DateNext]_vars

----
\* Two user sessions on the "Execute Workflow" page of streamlit_app.py.  Each
\* session runs the page script in its own thread; all of them share the one
\* agent of init_agent, which holds no per-run state, and the working
\* directory, where the page writes the contacts to the fixed path
\* "temp_workflow.csv" before it calls execute_workflow with that path.

agentVars == <<pc, entry, now, callAt, tmpl, selected_templates, sender_info,
               event_end_date, created_list, import_result, list_id, today,
               campaign_schedules, idx, sc, sc_result, results, calls>>

Sessions == {1, 2}

\* the contact data a session may hold in st.session_state['workflow_df']
Datasets == {"contacts_a", "contacts_b"}

\* the remote service gives every new list an id of its own
NewListId == 42 + Cardinality({s \in Sessions : sessions[s].list_id # 0})

SessionAt(s, at) == sessions[s].pc = at

ExecuteWorkflowClick(s) ==
    /\ SessionAt(s, "page")
    /\ temp_workflow_csv' = sessions[s].workflow_df
    /\ sessions' = [sessions EXCEPT ![s].pc = "create_list"]
    /\ UNCHANGED agentVars

SessionCreateList(s) ==
    /\ SessionAt(s, "create_list")
    /\ \/ sessions' = [sessions EXCEPT ![s].list_id = NewListId,
                                       ![s].pc = "read_file"]
       \/ sessions' = [sessions EXCEPT ![s].pc = "done"]
    /\ UNCHANGED <<temp_workflow_csv, agentVars>>

SessionReadFile(s) ==
    /\ SessionAt(s, "read_file")
    /\ sessions' = [sessions EXCEPT ![s].file_content = temp_workflow_csv,
                                    ![s].pc = "import_call"]
    /\ UNCHANGED <<temp_workflow_csv, agentVars>>

SessionImport(s) ==
    /\ SessionAt(s, "import_call")
    /\ \E ok \in BOOLEAN :
        sessions' = [sessions EXCEPT
            ![s].imported = Append(@, [listIds |-> sessions[s].list_id,
                                       fileBody |-> sessions[s].file_content]),
            ![s].pc = IF ok THEN "schedule" ELSE "done"]
    /\ UNCHANGED <<temp_workflow_csv, agentVars>>

\* one pass of the scheduling loop: the campaign is posted, or the attempt
\* ends before its request
SessionSchedule(s) ==
    /\ SessionAt(s, "schedule")
    /\ \E posted \in BOOLEAN :
        sessions' = [sessions EXCEPT
            ![s].campaigns = IF posted THEN Append(@, sessions[s].list_id) ELSE @,
            ![s].attempts = @ + 1,
            ![s].pc = IF sessions[s].attempts = 2 THEN "done" ELSE "schedule"]
    /\ UNCHANGED <<temp_workflow_csv, agentVars>>

ConcInit ==
    /\ pc = "idle"
    /\ entry = "none"
    /\ now = DateTime(TUESDAY, 8, 30, 0)
    /\ callAt = now
    /\ tmpl = [t \in Templates |-> "active"]
    /\ selected_templates = [k \in {} |-> 0]
    /\ sender_info = {}
    /\ event_end_date = NoDate
    /\ created_list = 0
    /\ import_result = NoImport
    /\ list_id = 0
    /\ today = NoDate
    /\ campaign_schedules = <<>>
    /\ idx = 0
    /\ sc = NoCall
    /\ sc_result = NoResult
    /\ results = [steps |-> <<>>, actions_taken |-> <<>>,
                  result |-> [text |-> "", cause |-> NoMsg]]
    /\ calls = <<>>
    /\ temp_workflow_csv = ""
    /\ \E df \in [Sessions -> Datasets] :
        sessions = [s \in Sessions |->
                       [pc |-> "page", workflow_df |-> df[s], list_id |-> 0,
                        file_content |-> "", imported |-> <<>>,
                        campaigns |-> <<>>, attempts |-> 0]]

ConcNext ==
    \E s \in Sessions :
        \/ ExecuteWorkflowClick(s)
        \/ SessionCreateList(s)
        \/ SessionReadFile(s)
        \/ SessionImport(s)
        \/ SessionSchedule(s)

ConcSpec == ConcInit /\ [][ConcNext]_vars

----
\* Reading the history

CallsOf(op) == {i \in DOMAIN calls : calls[i].op = op}

Computed == campaign_schedules # <<>>
Slot(i) == campaign_schedules[i].send_date

ImportFailed == import_result.status = "error"

PreflightFalse(i) ==
    /\ calls[i].op = "get_template"
    /\ calls[i].stage = "preflight"
    /\ ~calls[i].ok

FailedPosts == {i \in CallsOf("create_campaign") : ~calls[i].ok}

\* the entry of the action log for campaign k, given the answer to its request
Outcome(k, ok) ==
    IF ok THEN ScheduleSuccess(CampaignNames[k]).message
    ELSE ScheduleFailure(CampaignNames[k]).message

----
\* C1: once the import step of execute_workflow has failed, the only remote
\* requests of the run are those of the import step, no dates are computed,
\* and the run is recording the import or has returned: no template check,
\* no activation, no scheduling attempt and no campaign-creation request.
C1_ImportFailureStopsWorkflow ==
    (entry = "workflow" /\ ImportFailed) =>
        /\ pc \in {"record_import", "returned"}
        /\ \A i \in DOMAIN calls : calls[i].op \in {"create_list", "import_contacts"}
        /\ ~Computed
        /\ Len(results.steps) <= 1

C1_Witness ==
    /\ entry = "workflow"
    /\ pc = "returned"
    /\ ImportFailed
    /\ \E i \in CallsOf("import_contacts") : ~calls[i].ok

\* C2: every campaign-creation request names a template that is active at the
\* remote service when the request is issued.
C2_CampaignTemplateActive ==
    \A i \in CallsOf("create_campaign") : calls[i].tstate = "active"

\* C3: every campaign-creation request carries a scheduled timestamp strictly
\* later than the clock at the moment the request is issued.
C3_ScheduledAfterIssue ==
    \A i \in CallsOf("create_campaign") : calls[i].sched > calls[i].at

\* C4 as stated: schedule_campaign called with a send timestamp at or before
\* the clock returns an error and has issued no remote request at all.
C4_NoRemoteCallAtAll ==
    (entry = "schedule" /\ pc = "returned" /\ Stamp(sc.send_date) <= Stamp(callAt)) =>
        /\ sc_result.status = "error"
        /\ calls = <<>>

\* C4 amended: schedule_campaign called with a send timestamp at or before the
\* clock returns an error and issues no campaign-creation request; the one
\* remote request of the call is the lookup of its template, made before the
\* date is checked.
C4_PastDateRejectedAfterLookup ==
    (entry = "schedule" /\ pc = "returned" /\ Stamp(sc.send_date) <= Stamp(callAt)) =>
        /\ sc_result.status = "error"
        /\ CallsOf("create_campaign") = {}
        /\ Len(calls) = 1
        /\ calls[1].op = "get_template"
        /\ calls[1].template = sc.template_id

C4_Witness ==
    /\ entry = "schedule"
    /\ pc = "returned"
    /\ Stamp(sc.send_date) <= Stamp(callAt)
    /\ sc_result.message.text = "Scheduled date must be in the future."
    /\ Len(calls) = 1

\* C5 as stated: in a run of execute_workflow that has returned, every
\* template id whose pre-flight existence check returned false was activated
\* by exactly one activate_template request.
C5_OneActivationPerTemplate ==
    (entry = "workflow" /\ pc = "returned") =>
        \A t \in Templates :
            (\E i \in DOMAIN calls : PreflightFalse(i) /\ calls[i].template = t) =>
                Cardinality({i \in CallsOf("activate_template") : calls[i].template = t}) = 1

\* C5 amended: every pre-flight existence check that returns false is followed
\* at once by one activate_template request for the same template id, every
\* activate_template request follows such a check, and all of them precede
\* every request of the scheduling stage; a template id whose check returns
\* false for several campaigns is activated once per such check.
C5_OneActivationPerFalseCheck ==
    entry = "workflow" =>
        /\ \A i \in DOMAIN calls :
            PreflightFalse(i) =>
                IF i = Len(calls)
                THEN pc = "preflight_activate"
                ELSE /\ calls[i + 1].op = "activate_template"
                     /\ calls[i + 1].template = calls[i].template
        /\ \A i \in CallsOf("activate_template") :
            /\ i > 1
            /\ PreflightFalse(i - 1)
            /\ calls[i - 1].template = calls[i].template
        /\ \A i, j \in DOMAIN calls :
            (calls[i].stage = "schedule" /\ calls[j].stage = "preflight") => j < i

C5_Witness ==
    /\ entry = "workflow"
    /\ pc = "returned"
    /\ \E t \in Templates :
        /\ Cardinality({i \in DOMAIN calls : PreflightFalse(i) /\ calls[i].template = t}) = 2
        /\ Cardinality({i \in CallsOf("activate_template") : calls[i].template = t}) = 2
    /\ CallsOf("create_campaign") # {}

\* C6 as stated: a returned run of execute_workflow in which three
\* campaign-creation requests were issued and exactly one failed has an action
\* log of exactly three entries.
C6_ThreeLogEntries ==
    (/\ entry = "workflow"
     /\ pc = "returned"
     /\ Cardinality(CallsOf("create_campaign")) = 3
     /\ Cardinality(FailedPosts) = 1) =>
        Len(results.actions_taken) = 3

\* C6 amended: a returned run of execute_workflow in which exactly one
\* campaign-creation request failed has attempted all three campaigns, and its
\* action log has exactly four entries: the message of the import step, then
\* the outcome of each of the three campaigns in order, the failed one
\* included.
C6_FourLogEntries ==
    (entry = "workflow" /\ pc = "returned" /\ Cardinality(FailedPosts) = 1
     /\ Cardinality(CallsOf("create_campaign")) = 3) =>
        /\ Len(results.actions_taken) = 4
        /\ results.actions_taken[1] = import_result.message
        /\ Len(results.steps) = 4
        /\ \A k \in Campaigns :
            \E i \in CallsOf("create_campaign") :
                /\ Cardinality({j \in CallsOf("create_campaign") : j <= i}) = k
                /\ results.steps[k + 1] = Step("Schedule", CampaignNames[k])
                /\ results.actions_taken[k + 1] = Outcome(k, calls[i].ok)

C6_Witness ==
    /\ entry = "workflow"
    /\ pc = "returned"
    /\ Cardinality(CallsOf("create_campaign")) = 3
    /\ FailedPosts # {}
    /\ Cardinality(FailedPosts) = 1
    /\ ~calls[CHOOSE i \in CallsOf("create_campaign") :
                 \A j \in CallsOf("create_campaign") : i <= j].ok

\* C7 as stated: the Tuesday and the Friday slot are strictly later than the
\* clock reading they were computed from, fall on a Tuesday and a Friday, and
\* are at 09:00.
C7_SlotsStrictlyFuture ==
    Computed =>
        /\ Stamp(Slot(1)) > Stamp(today)
        /\ Stamp(Slot(2)) > Stamp(today)
        /\ Weekday(Slot(1)) = 1 /\ Weekday(Slot(2)) = 4
        /\ Slot(1).hour = 9 /\ Slot(1).minute = 0
        /\ Slot(2).hour = 9 /\ Slot(2).minute = 0

\* the slot of campaign i is as C7 amended says, for the weekday target
SlotAsAmended(i, target) ==
    /\ Weekday(Slot(i)) = target
    /\ Slot(i).hour = 9
    /\ Slot(i).minute = 0
    /\ Slot(i).second = today.second
    /\ (Stamp(Slot(i)) > Stamp(today)) <=>
           ~(Weekday(today) = target /\ today.hour >= 9)

\* C7 amended: the Tuesday and the Friday slot fall on a Tuesday and a Friday
\* at hour 9, minute 0, with the sub-minute part of the clock reading carried
\* over; a slot is strictly later than the clock reading except when today is
\* the slot's weekday and the time is 09:00 or later: then the slot is today
\* at 09:00, at or before the clock reading.
C7_SlotsFutureUnlessToday ==
    Computed => (SlotAsAmended(1, 1) /\ SlotAsAmended(2, 4))

C7_Witness ==
    /\ Computed
    /\ Weekday(today) = 1
    /\ today.hour = 10
    /\ Slot(1).day = today.day
    /\ Stamp(Slot(1)) < Stamp(today)
    /\ Stamp(Slot(2)) > Stamp(today)

\* C8: the post-event slot is two days after event_end_date, at hour 10,
\* minute 0, whatever the weekday of event_end_date (its sub-minute part is
\* carried over); event end 2024-06-10 (day 161) gives 2024-06-12 10:00.
C8_PostEventSlot ==
    Computed =>
        /\ Slot(3).day = event_end_date.day + 2
        /\ Slot(3).hour = 10
        /\ Slot(3).minute = 0
        /\ Slot(3).second = event_end_date.second
        /\ (event_end_date = DateTime(161, 0, 0, 0)) => (Slot(3) = DateTime(163, 10, 0, 0))

C8_Witness ==
    /\ Computed
    /\ event_end_date = DateTime(161, 0, 0, 0)
    /\ Slot(3) = DateTime(163, 10, 0, 0)

\* the slot of campaign i is a number of days in 0..6 after today, on the
\* weekday target, and on today exactly when today is that weekday
OffsetAsClaimed(i, target) ==
    /\ Slot(i).day - today.day \in 0..6
    /\ Weekday(Slot(i)) = target
    /\ (Slot(i).day = today.day) <=> (Weekday(today) = target)

\* C9: the Tuesday and the Friday slot are 0..6 days after today, on weekday 1
\* and 4 (Monday = 0), and 0 days after exactly when today is that weekday;
\* Wednesday 2024-01-03 10:00 (day 2) gives Tuesday 2024-01-09 09:00 (day 8)
\* and Friday 2024-01-05 09:00 (day 4).
C9_WeekdayOffset ==
    Computed =>
        /\ OffsetAsClaimed(1, 1)
        /\ OffsetAsClaimed(2, 4)
        /\ (today = DateTime(2, 10, 0, 0)) =>
               (Slot(1) = DateTime(8, 9, 0, 0) /\ Slot(2) = DateTime(4, 9, 0, 0))

C9_Witness ==
    /\ Computed
    /\ today = DateTime(2, 10, 0, 0)
    /\ Slot(1) = DateTime(8, 9, 0, 0)

\* C10: whatever the remote service answers, every call of execute_workflow
\* ends returned, for good, with a result whose terminal status is set; it
\* never ends with an exception leaving it (pc = "raised").
C10_AlwaysReturnsResult ==
    <>[](entry = "workflow" =>
            (pc = "returned" /\
             results.result.text \in
                 {"Complete workflow executed successfully", "Workflow failed"}))

C10_Witness ==
    /\ entry = "workflow"
    /\ pc = "returned"
    /\ results.result.text = "Workflow failed"
    /\ \E i \in CallsOf("activate_template") : ~calls[i].ok

\* the pre-flight existence checks among the first n requests
PreflightChecks(n) ==
    {i \in 1..n : calls[i].op = "get_template" /\ calls[i].stage = "preflight"}

ScheduleStage == {i \in DOMAIN calls : calls[i].stage = "schedule"}

\* C11: once a request of the scheduling stage is issued or a scheduling step
\* is logged, the pre-flight check has been made for all three campaigns, in
\* order, each for its campaign's template; a failed activation is the last
\* request of the run: the run has returned with no campaign-creation request
\* and no scheduling request, and its terminal status is the failure marker
\* naming the campaign whose template was being activated.
C11_PreflightBeforeScheduling ==
    entry = "workflow" =>
        /\ (ScheduleStage # {} \/ Len(results.steps) > 1) =>
            /\ Cardinality(PreflightChecks(Len(calls))) = 3
            /\ \A i \in PreflightChecks(Len(calls)) :
                calls[i].template =
                    campaign_schedules[Cardinality(PreflightChecks(i))].template
        /\ \A i \in CallsOf("activate_template") :
            ~calls[i].ok =>
                /\ pc = "returned"
                /\ i = Len(calls)
                /\ CallsOf("create_campaign") = {}
                /\ ScheduleStage = {}
                /\ Len(results.steps) = 1
                /\ results.result.text = "Workflow failed"
                /\ results.result.cause.text = "Failed to activate template for"
                /\ results.result.cause.campaign =
                       CampaignNames[Cardinality(PreflightChecks(i))]
                /\ results.result.cause.template = calls[i].template

C11_Witness ==
    /\ entry = "workflow"
    /\ pc = "returned"
    /\ \E i \in CallsOf("activate_template") :
        /\ ~calls[i].ok
        /\ calls[i].tstate = "missing"
        /\ Cardinality(PreflightChecks(i)) = 2
    /\ results.result.cause.campaign = "Friday Reminder"

Succeeded == results.result.text = "Complete workflow executed successfully"

\* every pre-flight check passed or was followed by a successful activation
PreflightPassedOrRepaired ==
    /\ Cardinality(PreflightChecks(Len(calls))) = 3
    /\ \A i \in PreflightChecks(Len(calls)) :
        \/ calls[i].ok
        \/ /\ i + 1 \in DOMAIN calls
           /\ calls[i + 1].op = "activate_template"
           /\ calls[i + 1].ok

\* the scheduling attempts of the run that failed, by campaign
FailedAttempts ==
    {k \in Campaigns :
        /\ Len(results.actions_taken) > k
        /\ results.actions_taken[k + 1] = Outcome(k, FALSE)}

C13_ImportAndCampaignsUseCreatedList ==
    entry = "workflow" =>
        /\ Cardinality(CallsOf("create_list")) <= 1
        /\ Cardinality(CallsOf("import_contacts")) <= 1
        /\ \A i \in CallsOf("import_contacts") :
            \E j \in CallsOf("create_list") :
                j < i /\ calls[j].ok /\ calls[i].list = calls[j].list
        /\ \A j \in CallsOf("create_list") :
            ~calls[j].ok => CallsOf("import_contacts") = {}
        /\ \A i \in CallsOf("create_campaign") :
            \E j \in CallsOf("create_list") :
                j < i /\ calls[j].ok /\ calls[i].list = calls[j].list

C13_Witness ==
    /\ entry = "workflow"
    /\ pc = "returned"
    /\ \E i \in CallsOf("import_contacts") : calls[i].list = 42
    /\ Cardinality({i \in CallsOf("create_campaign") : calls[i].list = 42}) = 3

\* C14 (as stated): with two sessions running the workflow page, every
\* contact-import request of a session carries the contact data of that
\* session and the id of the list that session created, the sessions' lists
\* differ, and every campaign of a session targets that session's list.
C14_RunsAreIsolated ==
    sessions # <<>> =>
        \A s \in Sessions :
            /\ \A i \in DOMAIN sessions[s].imported :
                /\ sessions[s].imported[i].fileBody = sessions[s].workflow_df
                /\ sessions[s].imported[i].listIds = sessions[s].list_id
            /\ \A i \in DOMAIN sessions[s].campaigns :
                sessions[s].campaigns[i] = sessions[s].list_id
            /\ \A o \in Sessions \ {s} :
                sessions[s].list_id # 0 => sessions[o].list_id # sessions[s].list_id

\* the template lookups of the scheduling stage among the first n requests
ScheduleLookups(n) ==
    {i \in 1..n : calls[i].op = "get_template" /\ calls[i].stage = "schedule"}

\* C15: execute_workflow attempts the campaigns in the order Tuesday
\* Invitation, Friday Reminder, Post-Event Survey: the k-th template lookup of
\* the scheduling stage is for campaign k, a campaign-creation request follows
\* the lookup of its own campaign directly and carries that campaign's slot,
\* the result of attempt k is in the action log before attempt k+1 issues a
\* request, and step log and action log name the campaigns in that order.
C15_CampaignsInOrder ==
    (entry = "workflow" /\ Computed) =>
        /\ \A i \in ScheduleLookups(Len(calls)) :
            LET k == Cardinality(ScheduleLookups(i)) IN
            /\ k \in Campaigns
            /\ calls[i].template = campaign_schedules[k].template
            /\ Len(results.steps) >= k + 1
        /\ \A i \in CallsOf("create_campaign") :
            LET k == Cardinality(ScheduleLookups(i)) IN
            /\ i - 1 \in ScheduleLookups(i)
            /\ calls[i].template = campaign_schedules[k].template
            /\ calls[i].sched = Stamp(campaign_schedules[k].send_date)
        /\ Len(results.actions_taken) >= Cardinality(ScheduleLookups(Len(calls)))
        /\ Len(results.steps) - Len(results.actions_taken) \in {0, 1}
        /\ \A k \in Campaigns :
            /\ Len(results.steps) > k =>
                results.steps[k + 1] = Step("Schedule", CampaignNames[k])
            /\ Len(results.actions_taken) > k =>
                results.actions_taken[k + 1].campaign \in {CampaignNames[k], ""}
        /\ campaign_schedules[1].name = "Tuesday Invitation"
        /\ campaign_schedules[2].name = "Friday Reminder"
        /\ campaign_schedules[3].name = "Post-Event Survey"

C15_Witness ==
    /\ entry = "workflow"
    /\ pc = "returned"
    /\ campaign_schedules # <<>>
    /\ selected_templates["tuesday"] # selected_templates["friday"]
    /\ Cardinality(CallsOf("create_campaign")) = 3
    /\ FailedPosts = {}
    /\ Len(results.steps) = 4
    /\ Len(results.actions_taken) = 4

\* C16 (as stated): a returned run of execute_workflow whose import failed
\* carries the failure marker with the message of the import error, the one
\* recorded for the import step in the action log.
C16_FailureCarriesImportError ==
    (entry = "workflow" /\ pc = "returned" /\ ImportFailed) =>
        /\ results.result.text = "Workflow failed"
        /\ results.result.cause = import_result.message
        /\ results.result.cause = results.actions_taken[1]

\* C17: a returned run of execute_workflow whose sender record has both name
\* and email has a step log and an action log of the same length: 1 when the
\* run was aborted by an import failure or an activation failure, 4 when the
\* terminal status is the success marker; the first step is the import step.
C17_LogsSameLength ==
    (entry = "workflow" /\ pc = "returned"
        /\ {"name", "email"} \subseteq sender_info) =>
        /\ Len(results.steps) = Len(results.actions_taken)
        /\ Len(results.steps) >= 1
        /\ results.steps[1] = Step("Import contacts", "")
        /\ (import_result.status # "success"
              \/ \E i \in CallsOf("activate_template") : ~calls[i].ok) =>
            /\ Len(results.steps) = 1
            /\ results.result.text = "Workflow failed"
        /\ results.result.text = "Workflow failed" => Len(results.steps) = 1
        /\ results.result.text = "Complete workflow executed successfully" =>
            Len(results.steps) = 4
        /\ results.result.text \in
               {"Workflow failed", "Complete workflow executed successfully"}

C17_Witness ==
    /\ entry = "workflow"
    /\ pc = "returned"
    /\ {"name", "email"} \subseteq sender_info
    /\ import_result.status = "success"
    /\ \E i \in CallsOf("activate_template") : ~calls[i].ok
    /\ results.result.text = "Workflow failed"
    /\ Len(results.steps) = 1
    /\ Len(results.actions_taken) = 1

====
